---------------------------- MODULE Spec2Model ----------------------------
(***************************************************************************)
(* Model of llm_commit/plugin.py: the SCM adapters (GitSCM, MercurialSCM,  *)
(* SvnSCM), the `commit` command that drives one run, and the helpers      *)
(* escape, quote, insert_message and interactive_exec.                     *)
(*                                                                         *)
(* Text is modelled as a sequence of chunks.  A character of a commit      *)
(* message is one chunk ("a", "'", "\"", " "); a fixed word of a command   *)
(* ("git", "commit", "-m", "{}") is one chunk as well, so that a command   *)
(* token is a one-chunk text and " ".join is concatenation with <<" ">>.   *)
(*                                                                         *)
(* Python values that the code compares or tests for truth are modelled    *)
(* as strings: the members of StagedChangesStatus by their names, the      *)
(* booleans as "True"/"False", None as "None", and a bound method (an      *)
(* attribute that the code reads without calling it) as "bound_method".    *)
(***************************************************************************)
EXTENDS Integers, Sequences, FiniteSets, TLC

VARIABLES
    mode,               \* which entry point is exercised: "commit", "adapter", "text"
    pc,                 \* position in the code of that entry point
    repo,               \* the working directory: markers, pending changes, tool health
    yes,                \* --yes: run without prompting
    all,                \* --all: force_all
    gen,                \* what the model call yields: "raise", "nonstr" or a text
    idx,                \* index of the for loop over scm_classes
    scm,                \* the adapter object bound to `scm` ("None" before the loop)
    command,            \* the command template returned by get_command
    changes,            \* the diff text returned by get_changes
    reply,              \* the generated message
    quoted,             \* the value returned by quote
    full_command_str,   \* the command line returned by insert_message
    procs,              \* the subprocesses started so far, oldest first
    printed,            \* what the program itself has written to stdout
    exit_status,        \* exit status of the commit command, -1 while it has not run
    error,              \* the exception that ended the run, "NoError" if none
    failedAt            \* the position at which that exception was raised

vars == <<mode, pc, repo, yes, all, gen, idx, scm, command, changes, reply,
          quoted, full_command_str, procs, printed, exit_status, error,
          failedAt>>

-----------------------------------------------------------------------------
(* Bounds of the model. *)

\* longest commit message, in characters
MaxMsgLen == 3

\* most tokens of a command template handed to insert_message directly
MaxTemplateLen == 3

-----------------------------------------------------------------------------
(* Python values. *)

NoneValue == "None"

BoundMethod == "bound_method"

NoError == "NoError"

\* class StagedChangesStatus
StagedChangesStatus == {"NONE", "SOME", "ALL", "NO_CHANGES"}

\* bool(v) for the values the code tests: None and False are false, a bound
\* method is true
Truthy(v) == v \notin {"None", "False"}

-----------------------------------------------------------------------------
(* Text helpers: str.strip, str.join, membership of a character. *)

Whitespace == {" ", "\n"}

RECURSIVE LStrip(_)
LStrip(s) ==
    IF s # <<>> /\ Head(s) \in Whitespace THEN LStrip(Tail(s)) ELSE s

RECURSIVE RStrip(_)
RStrip(s) ==
    IF s # <<>> /\ s[Len(s)] \in Whitespace
    THEN RStrip(SubSeq(s, 1, Len(s) - 1))
    ELSE s

\* str.strip()
Strip(s) == RStrip(LStrip(s))

\* c in s
Contains(s, c) == \E i \in 1..Len(s) : s[i] = c

\* " ".join(tokens), each token a text
RECURSIVE Join(_)
Join(tokens) ==
    IF tokens = <<>> THEN <<>>
    ELSE IF Len(tokens) = 1 THEN tokens[1]
    ELSE tokens[1] \o <<" ">> \o Join(Tail(tokens))

\* a fixed word of a command, as a token
Tok(w) == <<w>>

\* the "{}" segment of a command template
Placeholder == Tok("{}")

-----------------------------------------------------------------------------
(* The environment: the working directory and the SCM binaries.  A         *)
(* subprocess is modelled by its CompletedProcess (returncode, stdout).    *)

\* Working directories: which marker directories exist under the path,
\* whether changes are recorded in Git's index, whether tracked files differ
\* from it in the working copy, and whether the SCM binary exits non-zero
\* there
Repos ==
    [git : BOOLEAN, hg : BOOLEAN, svn : BOOLEAN,
     index : BOOLEAN, worktree : BOOLEAN, broken : BOOLEAN]

Proc(argv) == [shell |-> FALSE, argv |-> argv]

ShellProc(line) == [shell |-> TRUE, argv |-> line]

Completed(rc, out) == [returncode |-> rc, stdout |-> out]

\* subprocess.run(["git", "status"], cwd=repo_path, capture_output=True, text=True)
RunGitStatus(r) ==
    IF r.broken THEN Completed(128, <<>>)
    ELSE Completed(0,
            <<"On branch main\n">>
            \o (IF r.index THEN <<"Changes ", "to be committed:", "\n">> ELSE <<>>)
            \o (IF r.worktree THEN <<"Changes ", "not staged for commit:", "\n">> ELSE <<>>)
            \o (IF ~r.index /\ ~r.worktree THEN <<"nothing to commit\n">> ELSE <<>>))

\* subprocess.run(["git", "diff", ...]): the unstaged diff, or with --cached
\* the diff of the index against HEAD
RunGitDiff(r, argv) ==
    IF r.broken THEN Completed(128, <<>>)
    ELSE IF Contains(argv, "--cached")
         THEN Completed(0, IF r.index THEN <<"diff-index">> ELSE <<>>)
         ELSE Completed(0, IF r.worktree THEN <<"diff-worktree">> ELSE <<>>)

\* hg status / svn status: one line per modified file
RunStatus(r) ==
    IF r.broken THEN Completed(1, <<>>)
    ELSE Completed(0, IF r.worktree THEN <<"M file", "\n">> ELSE <<>>)

\* hg diff: the working copy against its parent; with --change . the
\* changes of the parent revision itself
RunHgDiff(r, argv) ==
    IF r.broken THEN Completed(255, <<>>)
    ELSE IF Contains(argv, "--change")
         THEN Completed(0, <<"diff-parent">>)
         ELSE Completed(0, IF r.worktree THEN <<"diff-worktree">> ELSE <<>>)

\* svn diff
RunSvnDiff(r) ==
    IF r.broken THEN Completed(1, <<>>)
    ELSE Completed(0, IF r.worktree THEN <<"diff-worktree">> ELSE <<>>)

-----------------------------------------------------------------------------
(* What a method call yields: the exception it raises (NoError if it       *)
(* returns), the value it returns, and the subprocesses it started.        *)

Returns(v, ran) == [err |-> NoError, out |-> v, ran |-> ran]

Raises(e, ran) == [err |-> e, out |-> NoneValue, ran |-> ran]

-----------------------------------------------------------------------------
(* class GitSCM *)

\* GitSCM.detect_scm(repo_path) is not None
GitDetect(r) == r.git

\* GitSCM._staged_changes_status(repo_path)
GitStagedChangesStatus(r) ==
    LET result == RunGitStatus(r)
        ran == <<Proc(<<"git", "status">>)>>
        to_be_committed == Contains(result.stdout, "to be committed:")
        not_staged_for_commit == Contains(result.stdout, "not staged for commit:")
    IN  IF result.returncode # 0 THEN Raises("StatusQueryFailed", ran)
        ELSE IF to_be_committed
             THEN IF not_staged_for_commit THEN Returns("SOME", ran)
                  ELSE Returns("ALL", ran)
             ELSE IF not_staged_for_commit THEN Returns("NONE", ran)
                  ELSE Returns("NO_CHANGES", ran)

\* GitSCM.get_changes(repo_path).  The subject of the match statement is
\* self._staged_changes_status, the bound method: the method is not called.
GitGetChanges(r) ==
    LET subject == BoundMethod
        command0 == <<"git", "diff">>
        raised == subject = "NO_CHANGES"
        argv == IF subject \in {"SOME", "ALL"} THEN command0 \o <<"--cached">>
                ELSE command0
        result == RunGitDiff(r, argv)
        ran == <<Proc(argv)>>
    IN  IF raised THEN Raises("NoChangesFound", <<>>)
        ELSE IF Strip(result.stdout) = <<>> THEN Raises("NoChangesFound", ran)
        ELSE Returns(result.stdout, ran)

\* GitSCM.get_command(_repo_path, force_all).  Both comparisons read the bound
\* method self._staged_changes_status without calling it, and line 90 builds
\* the ClickException without raising it.
GitGetCommand(r, force_all) ==
    LET status == BoundMethod
        built == status = "NO_CHANGES"    \* an exception object, dropped
        extra_args == IF force_all THEN <<Tok("-a")>>
                      ELSE IF status = "NONE" THEN <<Tok("-a")>>
                      ELSE <<>>
    IN  Returns(<<Tok("git"), Tok("commit"), Tok("-m"), Placeholder>> \o extra_args,
                <<>>)

\* the attribute scm.commits_silently of a GitSCM: a plain method
GitCommitsSilently == BoundMethod

-----------------------------------------------------------------------------
(* class MercurialSCM *)

\* MercurialSCM.detect_scm(repo_path) is not None
HgDetect(r) == r.hg

\* MercurialSCM._staged_changes_status(repo_path)
HgStagedChangesStatus(r) ==
    LET result == RunStatus(r)
        ran == <<Proc(<<"hg", "status">>)>>
    IN  IF result.returncode # 0 THEN Raises("StatusQueryFailed", ran)
        ELSE IF Strip(result.stdout) = <<>> THEN Returns("NO_CHANGES", ran)
        ELSE Returns("ALL", ran)

\* MercurialSCM.get_changes(repo_path): the match subject is the bound method
\* again, and the diff text is returned unchecked
HgGetChanges(r) ==
    LET subject == BoundMethod
        command0 == <<"hg", "diff">>
        raised == subject = "NO_CHANGES"
        argv == IF subject \in {"SOME", "ALL"}
                THEN command0 \o <<"-w", "--change", ".">>
                ELSE command0
        result == RunHgDiff(r, argv)
    IN  IF raised THEN Raises("NoChangesFound", <<>>)
        ELSE Returns(result.stdout, <<Proc(argv)>>)

\* MercurialSCM.get_command(repo_path, force_all): the status method is
\* called here, but line 151 builds the ClickException without raising it
HgGetCommand(r, force_all) ==
    LET st == HgStagedChangesStatus(r)
    IN  IF st.err # NoError THEN Raises(st.err, st.ran)
        ELSE Returns(<<Tok("hg"), Tok("commit"), Tok("-m"), Placeholder>>, st.ran)

\* the attribute scm.commits_silently of a MercurialSCM: a property
HgCommitsSilently == "True"

-----------------------------------------------------------------------------
(* class SvnSCM *)

\* SvnSCM.detect_scm(repo_path) is not None
SvnDetect(r) == r.svn

\* SvnSCM._staged_changes_status(repo_path)
SvnStagedChangesStatus(r) ==
    LET result == RunStatus(r)
        ran == <<Proc(<<"svn", "status">>)>>
    IN  IF result.returncode # 0 THEN Raises("StatusQueryFailed", ran)
        ELSE IF Strip(result.stdout) = <<>> THEN Returns("NO_CHANGES", ran)
        ELSE Returns("ALL", ran)

\* SvnSCM.get_changes(repo_path)
SvnGetChanges(r) ==
    LET argv == <<"svn", "diff">>
        result == RunSvnDiff(r)
        ran == <<Proc(argv)>>
    IN  IF result.returncode # 0 THEN Raises("GetChangesFailed", ran)
        ELSE IF Strip(result.stdout) = <<>> THEN Raises("NoChangesFound", ran)
        ELSE Returns(result.stdout, ran)

\* SvnSCM.get_command(repo_path, force_all)
SvnGetCommand(r, force_all) ==
    LET st == SvnStagedChangesStatus(r)
    IN  IF st.err # NoError THEN Raises(st.err, st.ran)
        ELSE IF st.out = "NO_CHANGES" THEN Raises("NoChangesToCommit", st.ran)
        ELSE Returns(<<Tok("svn"), Tok("commit"), Tok("-m"), Placeholder>>, st.ran)

\* the attribute scm.commits_silently of a SvnSCM: a property
SvnCommitsSilently == "False"

-----------------------------------------------------------------------------
(* Dispatch on the adapter class. *)

\* scm_classes = [GitSCM, MercurialSCM, SvnSCM], by __scm_type__
scm_classes == <<"git", "hg", "svn">>

\* scm_class(): MercurialSCM declares commits_silently with @abstractmethod,
\* so ABCMeta refuses to instantiate it (TypeError)
Instantiate(cls) ==
    IF cls = "hg" THEN Raises("TypeError", <<>>) ELSE Returns(cls, <<>>)

detect_scm(k, r) ==
    CASE k = "git" -> GitDetect(r)
      [] k = "hg"  -> HgDetect(r)
      [] k = "svn" -> SvnDetect(r)

get_changes(k, r) ==
    CASE k = "git" -> GitGetChanges(r)
      [] k = "hg"  -> HgGetChanges(r)
      [] k = "svn" -> SvnGetChanges(r)

get_command(k, r, force_all) ==
    CASE k = "git" -> GitGetCommand(r, force_all)
      [] k = "hg"  -> HgGetCommand(r, force_all)
      [] k = "svn" -> SvnGetCommand(r, force_all)

\* the value of the expression scm.commits_silently
commits_silently(k) ==
    CASE k = "git" -> GitCommitsSilently
      [] k = "hg"  -> HgCommitsSilently
      [] k = "svn" -> SvnCommitsSilently

\* the status the adapter's classifier assigns to the working directory
\* (the value _staged_changes_status returns when it is called)
staged_changes_status(k, r) ==
    CASE k = "git" -> GitStagedChangesStatus(r)
      [] k = "hg"  -> HgStagedChangesStatus(r)
      [] k = "svn" -> SvnStagedChangesStatus(r)

-----------------------------------------------------------------------------
(* escape, quote, insert_message *)

\* escape(s): s.replace("'", "'\"'\""), four characters for each single quote
RECURSIVE escape(_)
escape(s) ==
    IF s = <<>> THEN <<>>
    ELSE IF Head(s) = "'" THEN <<"'", "\"", "'", "\"">> \o escape(Tail(s))
    ELSE <<Head(s)>> \o escape(Tail(s))

\* quote(s)
quote(s) ==
    IF ~Contains(s, "'") THEN <<"'">> \o s \o <<"'">>
    ELSE IF ~Contains(s, "\"") THEN <<"\"">> \o s \o <<"\"">>
    ELSE escape(s)

\* the loop of insert_message: every "{}" segment becomes quote(message)
Substitute(cmd, message) ==
    [i \in 1..Len(cmd) |-> IF cmd[i] = Placeholder THEN quote(message) ELSE cmd[i]]

\* insert_message with the message appended when no segment is "{}"
insert_message_appending(cmd, message) ==
    Join(Substitute(cmd, message)
         \o (IF \E i \in DOMAIN cmd : cmd[i] = Placeholder THEN <<>>
             ELSE <<quote(message)>>))

\* insert_message(command, message)
insert_message(cmd, message) == Join(Substitute(cmd, message))

-----------------------------------------------------------------------------
(* The inputs of a run. *)

\* result.text() of the model call, when it returns a str
Replies ==
    { <<"a">>, <<"a", "'", "a">>, <<"'", "\"">>, <<"a", "\n", "a">> }

\* the model call: it raises, returns something that is not a str, or a str
Gens ==
    { [kind |-> "raise", text |-> <<>>], [kind |-> "nonstr", text |-> <<>>] }
    \cup { [kind |-> "str", text |-> m] : m \in Replies }

\* what the user does with the pre-filled prompt: submit it as it is, submit
\* it with text appended, or interrupt the prompt (Ctrl-C)
UserActions == { "submit", "edit", "interrupt" }

Edited(line, user) == IF user = "edit" THEN line \o <<" ", "--dry-run">> ELSE line

\* exit statuses of the commit command
ExitStatuses == { 0, 1 }

\* the characters of a message handed to quote directly
Chars == { "a", "'", "\"", " " }

Msgs == UNION { [1..n -> Chars] : n \in 0..MaxMsgLen }

\* the tokens of a template handed to insert_message directly
Tokens == { Tok("commit"), Tok("-m"), Placeholder }

Templates == UNION { [1..n -> Tokens] : n \in 0..MaxTemplateLen }

Line(what, status) == [what |-> what, status |-> status]

-----------------------------------------------------------------------------
(* interactive_exec and the silent branch of commit *)

\* interactive_exec(repo_path, command): the prompt, then check_output with
\* stderr merged into stdout.  `user` is what the user does at the prompt,
\* rc the exit status of the command and utf8 whether its output decodes.
interactive_exec(cmdline, user, rc, utf8) ==
    LET hint == IF Contains(cmdline, "\n") THEN <<Line("multiline_hint", 0)>>
                ELSE <<>>
        ran == <<ShellProc(Edited(cmdline, user))>>
    IN  IF user = "interrupt"
        THEN [err |-> "KeyboardInterrupt", ran |-> <<>>, out |-> hint]
        ELSE IF ~utf8
        THEN [err |-> "UnicodeDecodeError", ran |-> ran, out |-> hint]
        ELSE IF rc = 0
        THEN [err |-> NoError, ran |-> ran, out |-> hint \o <<Line("output", 0)>>]
        ELSE [err |-> NoError, ran |-> ran, out |-> hint \o <<Line("failure", rc)>>]

\* subprocess.run(full_command_str, shell=True, cwd=path): nothing is
\* captured, the CompletedProcess is dropped
silent_exec(cmdline) ==
    [err |-> NoError, ran |-> <<ShellProc(cmdline)>>, out |-> <<>>]

\* lines 277-279: the two prints under `if scm.commits_silently:`
confirmation(k) ==
    IF Truthy(commits_silently(k))
    THEN <<Line("commits_silently", 0), Line("confirmation", 0)>>
    ELSE <<>>

-----------------------------------------------------------------------------
(* The commit command, one action for each call it makes. *)

\* an exception leaves the command
Abort(e) == /\ pc' = "error"
            /\ error' = e
            /\ failedAt' = pc

Inputs == <<mode, repo, yes, all, gen>>

Init ==
    /\ mode = "commit"
    /\ pc = "select"
    /\ repo \in Repos
    /\ yes \in BOOLEAN
    /\ all \in BOOLEAN
    /\ gen \in Gens
    /\ idx = 1
    /\ scm = NoneValue
    /\ command = <<>>
    /\ changes = <<>>
    /\ reply = <<>>
    /\ quoted = <<>>
    /\ full_command_str = <<>>
    /\ procs = <<>>
    /\ printed = <<>>
    /\ exit_status = -1
    /\ error = NoError
    /\ failedAt = NoneValue

\* lines 244-255: one iteration of the loop over scm_classes and, when the
\* loop ends, the test `scm is None`
SelectAdapter ==
    /\ mode = "commit" /\ pc = "select"
    /\ LET cls == scm_classes[idx]
           inst == Instantiate(cls)
           leaves == detect_scm(cls, repo) \/ idx = Len(scm_classes)
       IN  IF inst.err # NoError
           THEN Abort(inst.err) /\ UNCHANGED <<scm, idx>>
           ELSE /\ scm' = inst.out
                /\ IF ~leaves
                   THEN idx' = idx + 1 /\ UNCHANGED <<pc, error, failedAt>>
                   ELSE /\ UNCHANGED idx
                        /\ IF scm' = NoneValue
                           THEN Abort("UnsupportedRepository")
                           ELSE pc' = "get_command" /\ UNCHANGED <<error, failedAt>>
    /\ UNCHANGED <<Inputs, command, changes, reply, quoted, full_command_str,
                   procs, printed, exit_status>>

\* line 257
GetCommand ==
    /\ mode = "commit" /\ pc = "get_command"
    /\ LET r == get_command(scm, repo, all)
       IN  /\ procs' = procs \o r.ran
           /\ IF r.err # NoError
              THEN Abort(r.err) /\ UNCHANGED command
              ELSE command' = r.out /\ pc' = "get_changes"
                   /\ UNCHANGED <<error, failedAt>>
    /\ UNCHANGED <<Inputs, idx, scm, changes, reply, quoted, full_command_str,
                   printed, exit_status>>

\* lines 258-259 with the exception of get_changes dropped instead of raised
GetChanges_Swallowing ==
    /\ mode = "commit" /\ pc = "get_changes"
    /\ LET r == get_changes(scm, repo)
       IN  /\ procs' = procs \o r.ran
           /\ changes' = IF r.err # NoError THEN <<>> ELSE r.out
    /\ pc' = "generate"
    /\ UNCHANGED <<Inputs, idx, scm, command, reply, quoted, full_command_str,
                   printed, exit_status, error, failedAt>>

\* lines 258-259
GetChanges ==
    /\ mode = "commit" /\ pc = "get_changes"
    /\ LET r == get_changes(scm, repo)
       IN  /\ procs' = procs \o r.ran
           /\ IF r.err # NoError
              THEN Abort(r.err) /\ UNCHANGED changes
              ELSE changes' = r.out /\ pc' = "generate"
                   /\ UNCHANGED <<error, failedAt>>
    /\ UNCHANGED <<Inputs, idx, scm, command, reply, quoted, full_command_str,
                   printed, exit_status>>

\* lines 261-269: the model call and the isinstance test
Generate ==
    /\ mode = "commit" /\ pc = "generate"
    /\ IF gen.kind = "raise"
       THEN Abort("GeneratorFailure") /\ UNCHANGED reply
       ELSE IF gen.kind # "str"
       THEN Abort("ReplyNotAString") /\ UNCHANGED reply
       ELSE reply' = gen.text /\ pc' = "insert" /\ UNCHANGED <<error, failedAt>>
    /\ UNCHANGED <<Inputs, idx, scm, command, changes, quoted, full_command_str,
                   procs, printed, exit_status>>

\* line 270
InsertMessage ==
    /\ mode = "commit" /\ pc = "insert"
    /\ full_command_str' = insert_message(command, reply)
    /\ pc' = "exec"
    /\ UNCHANGED <<Inputs, idx, scm, command, changes, reply, quoted, procs,
                   printed, exit_status, error, failedAt>>

\* lines 272-279
Execute ==
    /\ mode = "commit" /\ pc = "exec"
    /\ \E user \in UserActions, rc \in ExitStatuses, utf8 \in BOOLEAN :
         LET r == IF yes THEN silent_exec(full_command_str)
                  ELSE interactive_exec(full_command_str, user, rc, utf8)
         IN  /\ procs' = procs \o r.ran
             /\ exit_status' = IF r.ran # <<>> THEN rc ELSE exit_status
             /\ IF r.err # NoError
                THEN printed' = printed \o r.out /\ Abort(r.err)
                ELSE /\ printed' = printed \o r.out \o confirmation(scm)
                     /\ pc' = "done"
                     /\ UNCHANGED <<error, failedAt>>
    /\ UNCHANGED <<Inputs, idx, scm, command, changes, reply, quoted,
                   full_command_str>>

Next ==
    \/ SelectAdapter
    \/ GetCommand
    \/ GetChanges
    \/ Generate
    \/ InsertMessage
    \/ Execute

Spec == Init /\ [][Next]_vars

-----------------------------------------------------------------------------
(* The adapter classes used directly: construct one, then call one of its  *)
(* methods on a working directory.                                         *)

AdapterInit ==
    /\ mode = "adapter"
    /\ pc = "new"
    /\ repo \in Repos
    /\ yes = FALSE
    /\ all \in BOOLEAN
    /\ gen = [kind |-> "raise", text |-> <<>>]
    /\ idx \in 1..Len(scm_classes)
    /\ scm = NoneValue
    /\ command = <<>>
    /\ changes = <<>>
    /\ reply = <<>>
    /\ quoted = <<>>
    /\ full_command_str = <<>>
    /\ procs = <<>>
    /\ printed = <<>>
    /\ exit_status = -1
    /\ error = NoError
    /\ failedAt = NoneValue

\* scm = scm_class()
Construct ==
    /\ mode = "adapter" /\ pc = "new"
    /\ LET inst == Instantiate(scm_classes[idx])
       IN  IF inst.err # NoError
           THEN Abort(inst.err) /\ UNCHANGED scm
           ELSE scm' = inst.out /\ pc' = "ready" /\ UNCHANGED <<error, failedAt>>
    /\ UNCHANGED <<Inputs, idx, command, changes, reply, quoted,
                   full_command_str, procs, printed, exit_status>>

\* scm.get_command(path, force_all=all)
CallGetCommand ==
    /\ mode = "adapter" /\ pc = "ready"
    /\ LET r == get_command(scm, repo, all)
       IN  /\ procs' = procs \o r.ran
           /\ error' = r.err
           /\ command' = IF r.err = NoError THEN r.out ELSE command
    /\ pc' = "after_get_command"
    /\ UNCHANGED <<Inputs, idx, scm, changes, reply, quoted, full_command_str,
                   printed, exit_status, failedAt>>

\* scm.get_changes(path)
CallGetChanges ==
    /\ mode = "adapter" /\ pc = "ready"
    /\ LET r == get_changes(scm, repo)
       IN  /\ procs' = procs \o r.ran
           /\ error' = r.err
           /\ changes' = IF r.err = NoError THEN r.out ELSE changes
    /\ pc' = "after_get_changes"
    /\ UNCHANGED <<Inputs, idx, scm, command, reply, quoted, full_command_str,
                   printed, exit_status, failedAt>>

AdapterNext ==
    \/ Construct
    \/ CallGetCommand
    \/ CallGetChanges

AdapterSpec == AdapterInit /\ [][AdapterNext]_vars

-----------------------------------------------------------------------------
(* quote and insert_message applied to bounded inputs. *)

TextInit ==
    /\ mode = "text"
    /\ pc = "start"
    /\ repo = [git |-> FALSE, hg |-> FALSE, svn |-> FALSE,
               index |-> FALSE, worktree |-> FALSE, broken |-> FALSE]
    /\ yes = FALSE
    /\ all = FALSE
    /\ gen = [kind |-> "raise", text |-> <<>>]
    /\ idx = 1
    /\ scm = NoneValue
    /\ command \in Templates
    /\ changes = <<>>
    /\ reply \in Msgs
    /\ quoted = <<>>
    /\ full_command_str = <<>>
    /\ procs = <<>>
    /\ printed = <<>>
    /\ exit_status = -1
    /\ error = NoError
    /\ failedAt = NoneValue

\* quote(reply)
CallQuote ==
    /\ mode = "text" /\ pc = "start"
    /\ quoted' = quote(reply)
    /\ pc' = "quoted"
    /\ UNCHANGED <<Inputs, idx, scm, command, changes, reply, full_command_str,
                   procs, printed, exit_status, error, failedAt>>

\* insert_message(command, reply)
CallInsertMessage ==
    /\ mode = "text" /\ pc = "start"
    /\ full_command_str' = insert_message(command, reply)
    /\ pc' = "inserted"
    /\ UNCHANGED <<Inputs, idx, scm, command, changes, reply, quoted, procs,
                   printed, exit_status, error, failedAt>>

TextNext ==
    \/ CallQuote
    \/ CallInsertMessage

TextSpec == TextInit /\ [][TextNext]_vars

-----------------------------------------------------------------------------
(* Vocabulary of the properties. *)

\* the markers under the path
NoMarker(r) == ~r.git /\ ~r.hg /\ ~r.svn

\* the first class, in the order Git, Mercurial, Subversion, whose marker
\* directory exists
FirstDetecting(r) ==
    IF r.git THEN "git" ELSE IF r.hg THEN "hg" ELSE IF r.svn THEN "svn"
    ELSE NoneValue

\* the commit command lines handed to a shell so far
ShellRuns == { i \in DOMAIN procs : procs[i].shell }

HasPrinted(what) == \E i \in DOMAIN printed : printed[i].what = what

HasToken(cmd, w) == \E i \in DOMAIN cmd : cmd[i] = Tok(w)

HasPlaceholder(cmd) == \E i \in DOMAIN cmd : cmd[i] = Placeholder

\* a occurs in b as a contiguous run of characters
IsInfix(a, b) ==
    \E i \in 1..(Len(b) - Len(a) + 1) : SubSeq(b, i, i + Len(a) - 1) = a

\* the steps of a run that come before the execution of the commit command
PreExecSteps == { "select", "get_command", "get_changes", "generate", "insert" }

\* s with each single quote replaced by the five characters '"'"'
RECURSIVE EscapeFive(_)
EscapeFive(s) ==
    IF s = <<>> THEN <<>>
    ELSE IF Head(s) = "'" THEN <<"'", "\"", "'", "\"", "'">> \o EscapeFive(Tail(s))
    ELSE <<Head(s)>> \o EscapeFive(Tail(s))

\* The words a POSIX shell makes of a command line over the characters of
\* the model: single and double quotes group, blanks separate; ok is FALSE
\* when a quote is left open.
RECURSIVE ShellLex(_, _, _, _, _)
ShellLex(s, state, cur, inWord, words) ==
    IF s = <<>>
    THEN [ok |-> state = "plain",
          words |-> IF inWord THEN Append(words, cur) ELSE words]
    ELSE LET c == Head(s)
             rest == Tail(s)
         IN  IF state = "sq"
             THEN IF c = "'" THEN ShellLex(rest, "plain", cur, TRUE, words)
                  ELSE ShellLex(rest, "sq", Append(cur, c), TRUE, words)
             ELSE IF state = "dq"
             THEN IF c = "\"" THEN ShellLex(rest, "plain", cur, TRUE, words)
                  ELSE ShellLex(rest, "dq", Append(cur, c), TRUE, words)
             ELSE IF c = "'" THEN ShellLex(rest, "sq", cur, TRUE, words)
             ELSE IF c = "\"" THEN ShellLex(rest, "dq", cur, TRUE, words)
             ELSE IF c \in Whitespace
             THEN ShellLex(rest, "plain", <<>>, FALSE,
                           IF inWord THEN Append(words, cur) ELSE words)
             ELSE ShellLex(rest, "plain", Append(cur, c), TRUE, words)

ShellWords(line) == ShellLex(line, "plain", <<>>, FALSE, <<>>)

-----------------------------------------------------------------------------
(* Properties of the commit command (Spec). *)

\* C1: when no adapter detects the path (no .git, .hg or .svn under it), the
\* run fails with UnsupportedRepository, before any subprocess is started
\* and before the message generator is called.
C1_UnsupportedRepository ==
    (mode = "commit" /\ NoMarker(repo) /\ pc # "select")
        => /\ pc = "error"
           /\ error = "UnsupportedRepository"
           /\ procs = <<>>
           /\ reply = <<>>

\* C6: once the commit command has been executed and the run has completed,
\* the confirmation has been printed if and only if the adapter is
\* Mercurial; a Git or Subversion run never prints it.
C6_ConfirmationOnlyForMercurial ==
    (mode = "commit" /\ pc = "done")
        => (HasPrinted("confirmation") <=> scm = "hg")

\* C7: the adapter used for the steps after selection is the first, in the
\* order Git, Mercurial, Subversion, whose marker directory exists, and
\* selection does not fail when at least one marker directory exists.
C7_FirstDetectingAdapter ==
    (mode = "commit" /\ ~NoMarker(repo) /\ pc # "select")
        => /\ failedAt # "select"
           /\ scm = FirstDetecting(repo)

\* C8: when the executed commit command exits non-zero, in interactive and
\* in silent mode alike, nothing is raised, the exit status and the captured
\* output are reported, and the run completes normally.
C8_FailureReportedNotRaised ==
    (mode = "commit" /\ exit_status > 0)
        => /\ pc = "done"
           /\ error = NoError
           /\ \E i \in DOMAIN printed : printed[i] = Line("failure", exit_status)

\* C9: a failure of any step before execution aborts the run: the commit
\* command is handed to a shell at most once, and only in a run whose
\* adapter selection, command construction, changes retrieval, message
\* generation and message insertion have all succeeded; a run in which one
\* of them failed never executes it.
C9_ExecuteOnlyAfterAllSteps ==
    mode = "commit" =>
        /\ Cardinality(ShellRuns) <= 1
        /\ (failedAt \in PreExecSteps) => (pc = "error" /\ ShellRuns = {})
        /\ (pc = "error") => (error # NoError /\ failedAt # NoneValue)
        /\ (ShellRuns # {}) =>
              /\ failedAt \notin PreExecSteps
              /\ scm \in {"git", "hg", "svn"}
              /\ get_command(scm, repo, all).err = NoError
              /\ command = get_command(scm, repo, all).out
              /\ get_changes(scm, repo).err = NoError
              /\ changes = get_changes(scm, repo).out
              /\ gen.kind = "str" /\ reply = gen.text
              /\ full_command_str = insert_message(command, reply)

\* C9 witness: a run that was aborted by a failing step (the model call)
\* after its earlier steps had started their subprocesses.
C9_Witness ==
    /\ mode = "commit" /\ pc = "error"
    /\ failedAt = "generate"
    /\ procs # <<>>
    /\ ShellRuns = {}

-----------------------------------------------------------------------------
(* Properties of the adapters (AdapterSpec). *)

\* the status the adapter's classifier gives the working directory
Classified == staged_changes_status(scm, repo).out

\* the diff subprocesses started so far
DiffRuns == { i \in DOMAIN procs : ~procs[i].shell /\ Contains(procs[i].argv, "diff") }

\* C2: Git get_command returns git commit -m <placeholder> with -a appended
\* if and only if force_all is true or the classified status is None; with
\* force_all false and only unstaged changes the template contains -a.
C2_StageAllFlag ==
    (mode = "adapter" /\ pc = "after_get_command" /\ scm = "git" /\ ~repo.broken)
        => /\ error = NoError =>
                /\ SubSeq(command, 1, 4) = <<Tok("git"), Tok("commit"), Tok("-m"), Placeholder>>
                /\ HasToken(command, "-a") <=> (all \/ Classified = "NONE")
           /\ (~all /\ Classified = "NONE") => (error = NoError /\ HasToken(command, "-a"))

\* C3: Git get_changes runs the diff with --cached exactly when the
\* classified status is Some or All and without it when the status is None;
\* when every change is staged the text returned is the staged diff.
C3_CachedDiff ==
    (mode = "adapter" /\ pc = "after_get_changes" /\ scm = "git" /\ ~repo.broken)
        => /\ \A i \in DiffRuns :
                Contains(procs[i].argv, "--cached") <=> Classified \in {"SOME", "ALL"}
           /\ Classified = "ALL" =>
                (error = NoError /\ changes = RunGitDiff(repo, <<"git", "diff", "--cached">>).stdout)

\* C4: for every adapter, get_command fails with NoChangesToCommit whenever
\* the classified status is NoChanges, and returns a template only when the
\* status is not NoChanges.
C4_NoChangesToCommit ==
    (mode = "adapter" /\ pc = "after_get_command" /\ ~repo.broken)
        => /\ Classified = "NO_CHANGES" => (error = "NoChangesToCommit" /\ command = <<>>)
           /\ Classified # "NO_CHANGES" => (error = NoError /\ HasPlaceholder(command))

-----------------------------------------------------------------------------
(* Properties of quote and insert_message (TextSpec). *)

\* C5: for a message with both a single and a double quote, quote(m) is m
\* with each single quote replaced by '"'"' and the whole wrapped in single
\* quotes, so that a shell reading commit -m quote(m) gets m back as one
\* argument.
C5_QuoteBothRoundTrip ==
    (mode = "text" /\ pc = "quoted" /\ Contains(reply, "'") /\ Contains(reply, "\""))
        => /\ quoted = <<"'">> \o EscapeFive(reply) \o <<"'">>
           /\ ShellWords(<<"commit", " ", "-m", " ">> \o quoted)
                = [ok |-> TRUE, words |-> <<Tok("commit"), Tok("-m"), reply>>]

\* C10, as stated: insert_message on a template without a placeholder token
\* fails with PlaceholderMissing and returns no command line.
C10_PlaceholderMissing ==
    (mode = "text" /\ pc = "inserted" /\ ~HasPlaceholder(command))
        => (error = "PlaceholderMissing" /\ full_command_str = <<>>)

\* C10, amended: insert_message on a template without a placeholder token
\* does not fail; it returns the template's tokens, in order and unchanged,
\* joined by single spaces, and the message does not occur in the result.
C10_NoPlaceholderJoinsTokens ==
    (mode = "text" /\ pc = "inserted" /\ ~HasPlaceholder(command))
        => /\ error = NoError
           /\ Len(full_command_str) = (IF command = <<>> THEN 0 ELSE 2 * Len(command) - 1)
           /\ \A i \in 1..Len(command) : <<full_command_str[2 * i - 1]>> = command[i]
           /\ \A i \in 1..(Len(command) - 1) : full_command_str[2 * i] = " "
           /\ ~IsInfix(quote(reply), full_command_str)

\* C10 witness: insert_message has returned for a template of several
\* tokens, none of them the placeholder.
C10_Witness ==
    /\ mode = "text" /\ pc = "inserted"
    /\ ~HasPlaceholder(command)
    /\ Len(command) >= 2

=============================================================================
